---- MODULE Spec2Model ----
(***************************************************************************)
(* Model of the streaming chat page, src/src/app/chat/page.tsx: the React  *)
(* state of ChatPage (messages, input, isGenerating), the handleSubmit     *)
(* callback with its two suspension points (await fetch, await             *)
(* reader.read()), and the line buffering / event parsing it applies to    *)
(* the response body.                                                      *)
(*                                                                         *)
(* Text is a sequence of units.  A unit is one lexical piece of the wire   *)
(* text: the "data: " prefix, a JSON fragment, one character of a token    *)
(* string, a blank, a newline.  The character "e'" is the one two-byte     *)
(* character of the model: on the wire it is the bytes C3 A9.              *)
(***************************************************************************)
EXTENDS Naturals, Sequences, FiniteSets, TLC

VARIABLES
    messages,      \* useState<ExtendedMessage[]>([])          page.tsx:48
    input,         \* useState("")                             page.tsx:49
    isGenerating,  \* useState(false)                          page.tsx:50
    cl,            \* the values of input and isGenerating that the rendered
                   \* handleSubmit closure captured            page.tsx:224
    calls,         \* one record per accepted handleSubmit invocation
    requests,      \* the fetch() calls issued, in order       page.tsx:95
    now,           \* the last value read from the millisecond clock
    last,          \* history: how the latest handleSubmit call ended
    part_numbers,  \* the part_numbers of the work order a WorkOrderCard
                   \* is given                                part_002:496
    badges         \* the part badges that card renders   part_002:626-646

\* The state of the page, and the state of a card of the results panel.
page == <<messages, input, isGenerating, cl, calls, requests, now, last>>
card == <<part_numbers, badges>>

vars == <<messages, input, isGenerating, cl, calls, requests, now, last,
          part_numbers, badges>>

----------------------------------------------------------------------------
(* Bounds of the model.                                                    *)

MaxSubmits    == 2  \* accepted submissions per session
MaxLines      == 2  \* lines of the response to the first submission
MaxLaterLines == 1  \* lines of the response to a later submission
MaxClock      == 1  \* last value of the millisecond clock
MaxPartsLen   == 7  \* characters of a part_numbers text

----------------------------------------------------------------------------
(* Text.                                                                   *)

NL  == "NL"        \* "\n"
SP  == "SP"        \* " "
PFX == "data: "    \* the SSE field prefix                     page.tsx:136

Whitespace == {SP}

RECURSIVE TrimLeft(_)
TrimLeft(s) ==
    IF s = <<>> THEN <<>>
    ELSE IF Head(s) \in Whitespace THEN TrimLeft(Tail(s)) ELSE s

RECURSIVE TrimRight(_)
TrimRight(s) ==
    IF s = <<>> THEN <<>>
    ELSE IF s[Len(s)] \in Whitespace THEN TrimRight(SubSeq(s, 1, Len(s) - 1))
    ELSE s

\* Trim leaving the whitespace at the end: the fault C20 guards against.
TrimStartOnly(s) == TrimLeft(s)

\* String.prototype.trim
Trim(s) == TrimRight(TrimLeft(s))

\* String.prototype.split("\n"): the segments between newlines; always at
\* least one segment, the last one being the text after the last newline.
RECURSIVE Split(_)
Split(s) ==
    IF \A i \in 1..Len(s) : s[i] # NL THEN <<s>>
    ELSE LET k == CHOOSE i \in 1..Len(s) :
                     s[i] = NL /\ \A j \in 1..(i - 1) : s[j] # NL
         IN  <<SubSeq(s, 1, k - 1)>> \o Split(SubSeq(s, k + 1, Len(s)))

----------------------------------------------------------------------------
(* TextDecoder.decode(value, {stream: true}): UTF-8, not fatal.  A lead    *)
(* byte waits for its continuation byte, across chunks; an ill-formed      *)
(* sequence becomes U+FFFD.                                                *)

LEAD == "C3"
CONT == "A9"
EACUTE == "e'"
FFFD == "FFFD"

RECURSIVE DecodeFrom(_, _, _)
DecodeFrom(pending, bytes, out) ==
    IF bytes = <<>> THEN [out |-> out, pending |-> pending]
    ELSE LET b == Head(bytes) IN
         IF pending # <<>>
         THEN IF b = CONT
              THEN DecodeFrom(<<>>, Tail(bytes), Append(out, EACUTE))
              ELSE DecodeFrom(<<>>, bytes, Append(out, FFFD))
         ELSE IF b = LEAD THEN DecodeFrom(<<LEAD>>, Tail(bytes), out)
         ELSE IF b = CONT THEN DecodeFrom(<<>>, Tail(bytes), Append(out, FFFD))
         ELSE DecodeFrom(<<>>, Tail(bytes), Append(out, b))

Decode(pending, bytes) == DecodeFrom(pending, bytes, <<>>)

\* The server's side of the encoding: the bytes of a text.
RECURSIVE Utf8(_)
Utf8(s) ==
    IF s = <<>> THEN <<>>
    ELSE (IF Head(s) = EACUTE THEN <<LEAD, CONT>> ELSE <<Head(s)>>)
         \o Utf8(Tail(s))

----------------------------------------------------------------------------
(* The JSON payloads of the model.  A payload is written with these units: *)
(*   {t:  c1 .. cn  ,d:T}    {"token":"c1..cn","done":true}                *)
(*   {k:1  ,d:F}             {"type":"cards","data":D1,"done":false}       *)
(*   {k:2  ,d:T}             {"type":"cards","data":D2,"done":true}        *)
(*   {}                      an object with no token, type or done field   *)
(* Any other sequence of units is not JSON.                                *)

OPEN_TOKEN == "{t:"
OPEN_CARDS == "{k:1"
OPEN_CARDS2 == "{k:2"
CLOSE_T    == ",d:T}"
CLOSE_F    == ",d:F}"
EMPTY_OBJ  == "{}"
JUNK       == "x"

Closers    == {CLOSE_T, CLOSE_F}
TokenChars == {"a", "b", EACUTE, FFFD, SP}

NoCard == "none"      \* cardData is undefined
D1     == "D1"        \* the data payload of the cards event {k:1
D2     == "D2"        \* the data payload of the cards event {k:2

CardsOpeners == {OPEN_CARDS, OPEN_CARDS2}
DataOf(opener) == IF opener = OPEN_CARDS THEN D1 ELSE D2

ParseFailure ==
    [ok |-> FALSE, type |-> "none", data |-> NoCard,
     hasToken |-> FALSE, token |-> <<>>, done |-> FALSE]

\* JSONParse returning an object without fields where the text is not
\* JSON, instead of throwing: the fault C11 guards against.
JSONParseNeverThrows(jsonStr) ==
    LET b == Trim(jsonStr) IN
    IF /\ Len(b) >= 2
       /\ b[1] = OPEN_TOKEN
       /\ b[Len(b)] \in Closers
       /\ \A i \in 2..(Len(b) - 1) : b[i] \in TokenChars
    THEN [ok |-> TRUE, type |-> "none", data |-> NoCard,
          hasToken |-> TRUE, token |-> SubSeq(b, 2, Len(b) - 1),
          done |-> (b[Len(b)] = CLOSE_T)]
    ELSE IF Len(b) = 2 /\ b[1] \in CardsOpeners /\ b[2] \in Closers
    THEN [ok |-> TRUE, type |-> "cards", data |-> DataOf(b[1]),
          hasToken |-> FALSE, token |-> <<>>, done |-> (b[2] = CLOSE_T)]
    ELSE [ok |-> TRUE, type |-> "none", data |-> NoCard,
          hasToken |-> FALSE, token |-> <<>>, done |-> FALSE]

\* JSON.parse(jsonStr)                                        page.tsx:139
JSONParse(jsonStr) ==
    LET b == Trim(jsonStr) IN
    IF b = <<EMPTY_OBJ>>
    THEN [ok |-> TRUE, type |-> "none", data |-> NoCard,
          hasToken |-> FALSE, token |-> <<>>, done |-> FALSE]
    ELSE IF /\ Len(b) >= 2
            /\ b[1] = OPEN_TOKEN
            /\ b[Len(b)] \in Closers
            /\ \A i \in 2..(Len(b) - 1) : b[i] \in TokenChars
    THEN [ok |-> TRUE, type |-> "none", data |-> NoCard,
          hasToken |-> TRUE, token |-> SubSeq(b, 2, Len(b) - 1),
          done |-> (b[Len(b)] = CLOSE_T)]
    ELSE IF Len(b) = 2 /\ b[1] \in CardsOpeners /\ b[2] \in Closers
    THEN [ok |-> TRUE, type |-> "cards", data |-> DataOf(b[1]),
          hasToken |-> FALSE, token |-> <<>>, done |-> (b[2] = CLOSE_T)]
    ELSE ParseFailure

\* line.startsWith("data: ")                                  page.tsx:136
StartsWithPrefix(line) == line # <<>> /\ Head(line) = PFX

----------------------------------------------------------------------------
(* Messages.                                                               *)

CARDS_CONTENT == <<"Work Order Search Results">>                \* page.tsx:149
ERROR_CONTENT == <<"I'm sorry, I'm having trouble connecting">> \* page.tsx:213
UNDEFINED     == <<"undefined">>   \* what "" + undefined appends

\* `user-${Date.now()}`, `assistant-${Date.now()}`           page.tsx:70,84
MakeId(kind, t) == [kind |-> kind, t |-> t]

\* CardsUpdate keeping the payload the message already has: the fault C13
\* guards against.
CardsUpdateKeepsFirst(prev, assistantId, data) ==
    [k \in 1..Len(prev) |->
        IF prev[k].id = assistantId
        THEN [prev[k] EXCEPT !.content = CARDS_CONTENT,
                             !.cardData = IF @ = NoCard THEN data ELSE @]
        ELSE prev[k]]

\* The updater of a cards event                              page.tsx:144-154
CardsUpdate(prev, assistantId, data) ==
    [k \in 1..Len(prev) |->
        IF prev[k].id = assistantId
        THEN [prev[k] EXCEPT !.content = CARDS_CONTENT, !.cardData = data]
        ELSE prev[k]]

\* msg.content + tokenData.token                              page.tsx:171
TokenText(data) == IF data.hasToken THEN data.token ELSE UNDEFINED

\* TokenUpdate assigning the token instead of appending it: the fault C7
\* guards against.
TokenUpdateAssigns(prev, assistantId, data) ==
    [k \in 1..Len(prev) |->
        IF prev[k].id = assistantId
        THEN [prev[k] EXCEPT !.content = TokenText(data)]
        ELSE prev[k]]

\* The updater of a token event                              page.tsx:166-175
TokenUpdate(prev, assistantId, data) ==
    [k \in 1..Len(prev) |->
        IF prev[k].id = assistantId
        THEN [prev[k] EXCEPT !.content = prev[k].content \o TokenText(data)]
        ELSE prev[k]]

\* ErrorUpdate writing the notice over whatever the assistant messages
\* hold: the fault C25 guards against.
ErrorUpdateOverwrites(prev) ==
    [k \in 1..Len(prev) |->
        IF prev[k].id.kind = "assistant"
        THEN [prev[k] EXCEPT !.content = ERROR_CONTENT]
        ELSE prev[k]]

\* ErrorUpdate taking the empty placeholder out of the list instead of
\* filling it: the fault C16 guards against.
ErrorUpdateRemoves(prev) ==
    SelectSeq(prev, LAMBDA m : ~(m.id.kind = "assistant" /\ m.content = <<>>))

\* ErrorUpdate adding a message of its own instead of filling the
\* placeholder: the fault C3 guards against.
ErrorUpdateAppends(prev) ==
    Append(prev, [id |-> MakeId("assistant", 0), role |-> "assistant",
                  content |-> ERROR_CONTENT, createdAt |-> 0,
                  cardData |-> NoCard])

\* The updater of the catch block                            page.tsx:207-217
ErrorUpdate(prev) ==
    [k \in 1..Len(prev) |->
        IF prev[k].id.kind = "assistant" /\ prev[k].content = <<>>
        THEN [prev[k] EXCEPT !.content = ERROR_CONTENT]
        ELSE prev[k]]

----------------------------------------------------------------------------
(* The body of the read loop for one chunk.                                *)

\* KeptBuffer with the partial line thrown away: the fault C1 guards against.
KeptBufferEmptied(segments) == <<>>

\* buffer = lines.pop() || ""                                 page.tsx:130
KeptBuffer(segments) == segments[Len(segments)]

\* what is left in `lines` after the pop                 page.tsx:129-130
CompleteLines(segments) == SubSeq(segments, 1, Len(segments) - 1)

\* EndsRequest without the return of the cards branch: the fault C5 guards
\* against.
EndsRequestTokenOnly(data) == data.done /\ data.type # "cards"

\* if (cardData.done) / if (tokenData.done): return      page.tsx:156,178
EndsRequest(data) == data.done

\* for (const line of lines) { ... }                     page.tsx:132-193
\* The result: the message list after the updaters of the processed lines,
\* whether a done event returned from handleSubmit, the toasts emitted,
\* the events applied, and the lines left unprocessed by the return.
RECURSIVE ProcessLines(_, _, _, _)
ProcessLines(lines, msgs, assistantId, log) ==
    IF lines = <<>>
    THEN [msgs |-> msgs, returned |-> FALSE, toasts |-> <<>>, log |-> log,
          skipped |-> 0]
    ELSE LET line == Head(lines)
             rest == Tail(lines)
         IN
         IF Trim(line) = <<>>
         THEN ProcessLines(rest, msgs, assistantId, log)
         ELSE IF ~StartsWithPrefix(line)
         THEN ProcessLines(rest, msgs, assistantId, log)
         ELSE LET data == JSONParse(Tail(line)) IN
              IF ~data.ok
              THEN ProcessLines(rest, msgs, assistantId, log)
              ELSE LET next == IF data.type = "cards"
                               THEN CardsUpdate(msgs, assistantId, data.data)
                               ELSE TokenUpdate(msgs, assistantId, data)
                       log2 == Append(log,
                                   [type |-> data.type, data |-> data.data,
                                    hasToken |-> data.hasToken,
                                    text |-> IF data.type = "cards" THEN <<>>
                                             ELSE TokenText(data),
                                    done |-> data.done])
                   IN  IF EndsRequest(data)
                       THEN [msgs |-> next, returned |-> TRUE,
                             toasts |-> <<"success">>, log |-> log2,
                             skipped |-> Len(rest)]
                       ELSE ProcessLines(rest, next, assistantId, log2)

----------------------------------------------------------------------------
(* The environment: what the user types and what the server sends.         *)

\* Values of the textarea                                 page.tsx:399-401
Inputs == {<<>>, <<SP>>, <<SP, "h", SP>>}

\* The lines a response is made of, without their newline: token events,
\* cards events, an object that is neither, a payload that is not JSON, a
\* line without the prefix, and the empty line.
TextLines ==
    { <<PFX, OPEN_TOKEN, EACUTE, CLOSE_F>>,
      <<PFX, OPEN_TOKEN, "b", CLOSE_T>>,
      <<PFX, OPEN_CARDS, CLOSE_F>>,
      <<PFX, OPEN_CARDS2, CLOSE_T>>,
      <<PFX, EMPTY_OBJ>>,
      <<PFX, JUNK>>,
      <<JUNK>>,
      <<>> }

\* The lines of the responses to later submissions: the events only.
LaterTextLines ==
    { <<PFX, OPEN_TOKEN, EACUTE, CLOSE_F>>,
      <<PFX, OPEN_TOKEN, "b", CLOSE_T>>,
      <<PFX, OPEN_CARDS, CLOSE_T>> }

\* The texts of at most n lines taken from `lines`.
RECURSIVE Texts(_, _)
Texts(lines, n) ==
    IF n = 0 THEN {<<>>}
    ELSE LET shorter == Texts(lines, n - 1)
         IN  shorter \cup {t \o l \o <<NL>> : t \in shorter, l \in lines}

\* The response bodies the server sends, as bytes: to the first request
\* and to a later one.
FirstWires == {Utf8(t) : t \in Texts(TextLines, MaxLines)}
LaterWires == {Utf8(t) : t \in Texts(LaterTextLines, MaxLaterLines)}

\* The length of the longest body, which is the longest chunk.
MaxChunk ==
    LET lengths == {Len(w) : w \in FirstWires \cup LaterWires}
    IN  CHOOSE n \in lengths : \A m \in lengths : m <= n

\* What fetch settles with: a rejection, or a response with a status and,
\* possibly, a body.
Rejection == [rejected |-> TRUE, ok |-> FALSE, hasBody |-> FALSE, wire |-> <<>>]
ResponsesWith(bodies) ==
    {Rejection}
    \cup {[rejected |-> FALSE, ok |-> FALSE, hasBody |-> TRUE, wire |-> <<>>]}
    \cup {[rejected |-> FALSE, ok |-> TRUE, hasBody |-> FALSE, wire |-> <<>>]}
    \cup {[rejected |-> FALSE, ok |-> TRUE, hasBody |-> TRUE, wire |-> w] :
             w \in bodies}
FirstWireResponses == ResponsesWith(FirstWires)
LaterWireResponses == ResponsesWith(LaterWires)
Responses(i) == IF i = 1 THEN FirstWireResponses ELSE LaterWireResponses

\* How the model names a settled fetch in the record of the call.
ResponseKind(resp) ==
    IF resp.rejected THEN "rejected"
    ELSE IF ~resp.ok THEN "status"
    ELSE IF ~resp.hasBody THEN "nobody"
    ELSE "ok"

----------------------------------------------------------------------------
(* WorkOrderCard: the part badges of one work order.                       *)
(*                                   src/unnamed/part_002:505-511, 626-646 *)

COMMA == ","

\* part_numbers: string | null | number                       part_002:476
NoParts           == [kind |-> "null", text |-> <<>>]
TextParts(t)      == [kind |-> "string", text |-> t]
NumberParts(digits) == [kind |-> "number", text |-> digits]

\* The card before it has rendered.
NotRendered ==
    [rendered |-> FALSE, row |-> FALSE, shown |-> <<>>, more |-> <<>>]

\* The characters of a part_numbers text.
PartChars == {COMMA, SP, "p", "q"}

\* The texts of at most n characters.
RECURSIVE PartTexts(_)
PartTexts(n) ==
    IF n = 0 THEN {<<>>}
    ELSE LET shorter == PartTexts(n - 1)
         IN  shorter \cup {Append(t, c) : t \in shorter, c \in PartChars}

\* The values of the part_numbers field: null, the numbers 0 and 12, and
\* the texts.
PartNumbers ==
    {NoParts, NumberParts(<<"0">>), NumberParts(<<"1", "2">>)}
    \cup {TextParts(t) : t \in PartTexts(MaxPartsLen)}

\* The truth value of part_numbers: null, "" and 0 are falsy. part_002:505
Truthy(pn) ==
    /\ pn.kind # "null"
    /\ ~(pn.kind = "string" /\ pn.text = <<>>)
    /\ ~(pn.kind = "number" /\ pn.text = <<"0">>)

\* String(part_numbers)                                       part_002:506
String(pn) == pn.text

\* String.prototype.split(",")                                part_002:507
RECURSIVE SplitComma(_)
SplitComma(s) ==
    IF \A i \in 1..Len(s) : s[i] # COMMA THEN <<s>>
    ELSE LET k == CHOOSE i \in 1..Len(s) :
                     s[i] = COMMA /\ \A j \in 1..(i - 1) : s[j] # COMMA
         IN  <<SubSeq(s, 1, k - 1)>> \o SplitComma(SubSeq(s, k + 1, Len(s)))

\* Parts keeping the empty entries: the fault C24 guards against.
PartsKeepsEmpty(pn) ==
    IF ~Truthy(pn) THEN <<>>
    ELSE LET entries == SplitComma(String(pn))
         IN  [k \in 1..Len(entries) |-> Trim(entries[k])]

\* const parts = part_numbers ? String(part_numbers).split(",")
\*     .map((p) => p.trim()).filter(Boolean) : []         part_002:505-511
Parts(pn) ==
    IF ~Truthy(pn) THEN <<>>
    ELSE LET entries == SplitComma(String(pn))
         IN  SelectSeq([k \in 1..Len(entries) |-> Trim(entries[k])],
                       LAMBDA p : p # <<>>)

\* The badges of the Parts row: parts.slice(0, 3), and "+k more" when
\* parts.length > 3; no row at all without parts.          part_002:626-646
Badges(parts) ==
    [rendered |-> TRUE,
     row   |-> Len(parts) > 0,
     shown |-> SubSeq(parts, 1, IF Len(parts) < 3 THEN Len(parts) ELSE 3),
     more  |-> IF Len(parts) > 3 THEN <<Len(parts) - 3>> ELSE <<>>]

----------------------------------------------------------------------------
(* handleSubmit                                           page.tsx:60-225  *)

\* SubmitRejected without the isGenerating test: the fault C2 guards
\* against.
SubmitRejectedBlankOnly(c) == Trim(c.input) = <<>>

\* SubmitRejected without the trim: the fault C10 guards against.
SubmitRejectedUntrimmed(c) == c.input = <<>> \/ c.isGenerating

\* if (!input.trim() || isGenerating) return;                  page.tsx:67
SubmitRejected(c) == Trim(c.input) = <<>> \/ c.isGenerating

\* The locals of a handleSubmit invocation that has not reached the stream,
\* or has returned.
NoStream ==
    [wire |-> <<>>, pos |-> 0, pending |-> <<>>, buffer |-> <<>>]

Init ==
    /\ messages = <<>>
    /\ input = <<>>
    /\ isGenerating = FALSE
    /\ cl = [input |-> <<>>, isGenerating |-> FALSE]
    /\ calls = <<>>
    /\ requests = <<>>
    /\ now = 0
    /\ last = "none"
    /\ part_numbers = NoParts
    /\ badges = NotRendered

\* handleInputChange, and the render React makes at the end of the event
\*                                                        page.tsx:228-233
HandleInputChange(v) ==
    /\ input' = v
    /\ cl' = [input |-> v, isGenerating |-> isGenerating]
    /\ UNCHANGED <<messages, isGenerating, calls, requests, now, last, card>>

\* HandleSubmitRejected clearing the input field on its way out: the fault
\* C29 guards against.
HandleSubmitRejectedClears ==
    /\ SubmitRejected(cl)
    /\ input' = <<>>
    /\ cl' = [input |-> <<>>, isGenerating |-> isGenerating]
    /\ last' = "rejected"
    /\ UNCHANGED <<messages, isGenerating, calls, requests, now, card>>

\* A handleSubmit call that returns at the guard.              page.tsx:67
HandleSubmitRejected ==
    /\ SubmitRejected(cl)
    /\ last' = "rejected"
    /\ UNCHANGED <<messages, input, isGenerating, cl, calls, requests, now,
                   card>>

\* HandleSubmit appending the placeholder before the user message: the
\* fault C28 guards against.
HandleSubmitPlaceholderFirst(t1, t2) ==
    /\ now <= t1 /\ t1 <= t2
    /\ ~SubmitRejected(cl)
    /\ Len(calls) < MaxSubmits
    /\ LET userMessage ==
               [id |-> MakeId("user", t1), role |-> "user",
                content |-> Trim(cl.input), createdAt |-> t1,
                cardData |-> NoCard]
           currentInput == Trim(cl.input)
           assistantId == MakeId("assistant", t2)
           assistantMessage ==
               [id |-> assistantId, role |-> "assistant",
                content |-> <<>>, createdAt |-> t2, cardData |-> NoCard]
       IN  /\ messages' = Append(Append(messages, assistantMessage), userMessage)
           /\ input' = <<>>
           /\ isGenerating' = TRUE
           /\ requests' = Append(requests,
                  [method |-> "POST", path |-> "/chat",
                   body |-> [message |-> currentInput]])
           /\ calls' = Append(calls,
                  [pc |-> "fetch", assistantId |-> assistantId,
                   slot |-> Len(messages) + 1, gen |-> cl.isGenerating,
                   response |-> "none", stream |-> NoStream,
                   log |-> <<>>, toasts |-> <<>>,
                   split |-> FALSE, skipped |-> 0, cut |-> FALSE,
                   outcome |-> "none"])
           /\ cl' = [input |-> <<>>, isGenerating |-> TRUE]
           /\ now' = t2
           /\ last' = "accepted"
           /\ UNCHANGED card

\* HandleSubmit leaving the placeholder to be appended when data arrives:
\* the fault C18 guards against.
HandleSubmitLazyPlaceholder(t1, t2) ==
    /\ now <= t1 /\ t1 <= t2
    /\ ~SubmitRejected(cl)
    /\ Len(calls) < MaxSubmits
    /\ LET userMessage ==
               [id |-> MakeId("user", t1), role |-> "user",
                content |-> Trim(cl.input), createdAt |-> t1,
                cardData |-> NoCard]
           currentInput == Trim(cl.input)
           assistantId == MakeId("assistant", t2)
           assistantMessage ==
               [id |-> assistantId, role |-> "assistant",
                content |-> <<>>, createdAt |-> t2, cardData |-> NoCard]
       IN  /\ messages' = Append(messages, userMessage)
           /\ input' = <<>>
           /\ isGenerating' = TRUE
           /\ requests' = Append(requests,
                  [method |-> "POST", path |-> "/chat",
                   body |-> [message |-> currentInput]])
           /\ calls' = Append(calls,
                  [pc |-> "fetch", assistantId |-> assistantId,
                   slot |-> Len(messages) + 2, gen |-> cl.isGenerating,
                   response |-> "none", stream |-> NoStream,
                   log |-> <<>>, toasts |-> <<>>,
                   split |-> FALSE, skipped |-> 0, cut |-> FALSE,
                   outcome |-> "none"])
           /\ cl' = [input |-> <<>>, isGenerating |-> TRUE]
           /\ now' = t2
           /\ last' = "accepted"
           /\ UNCHANGED card

\* A handleSubmit call that passes the guard: the synchronous part, up to
\* the await of fetch, and the render at the end of the event.  The clock
\* reads t1 for the user message and t2 for the assistant message.
\*                                                         page.tsx:69-104
HandleSubmit(t1, t2) ==
    /\ now <= t1 /\ t1 <= t2
    /\ ~SubmitRejected(cl)
    /\ Len(calls) < MaxSubmits
    /\ LET userMessage ==
               [id |-> MakeId("user", t1), role |-> "user",
                content |-> Trim(cl.input), createdAt |-> t1,
                cardData |-> NoCard]
           currentInput == Trim(cl.input)
           assistantId == MakeId("assistant", t2)
           assistantMessage ==
               [id |-> assistantId, role |-> "assistant",
                content |-> <<>>, createdAt |-> t2, cardData |-> NoCard]
       IN  /\ messages' = Append(Append(messages, userMessage), assistantMessage)
           /\ input' = <<>>
           /\ isGenerating' = TRUE
           /\ requests' = Append(requests,
                  [method |-> "POST", path |-> "/chat",
                   body |-> [message |-> currentInput]])
           /\ calls' = Append(calls,
                  [pc |-> "fetch", assistantId |-> assistantId,
                   slot |-> Len(messages) + 2, gen |-> cl.isGenerating,
                   response |-> "none", stream |-> NoStream,
                   log |-> <<>>, toasts |-> <<>>,
                   split |-> FALSE, skipped |-> 0, cut |-> FALSE,
                   outcome |-> "none"])
           /\ cl' = [input |-> <<>>, isGenerating |-> TRUE]
           /\ now' = t2
           /\ last' = "accepted"
           /\ UNCHANGED card

\* Finally without the reset: the fault C4 guards against.
FinallyKeeps(generating) == generating

\* finally { setIsGenerating(false); }                  page.tsx:220-222
Finally(generating) == FALSE

\* Fail issuing the request of the submission once more: the fault C19
\* guards against.
FailRetries(i) ==
    /\ messages' = ErrorUpdate(messages)
    /\ isGenerating' = FALSE
    /\ requests' = Append(requests, requests[i])
    /\ UNCHANGED <<input, cl, now, last, card>>

\* Fail without the outer finally, the indicator staying on: the fault
\* C17 guards against.
FailStuck(i) ==
    /\ messages' = ErrorUpdate(messages)
    /\ UNCHANGED <<input, isGenerating, cl, requests, now, last, card>>

\* The catch block and the outer finally.                page.tsx:203-222
Fail(i) ==
    /\ messages' = ErrorUpdate(messages)
    /\ isGenerating' = Finally(isGenerating)
    /\ UNCHANGED <<input, cl, requests, now, last, card>>

\* Throws without the body test: the fault C30 guards against.
ThrowsOnStatusOnly(resp) == resp.rejected \/ ~resp.ok

\* Throws for a rejected fetch only: the fault C14 guards against.
ThrowsOnRejectionOnly(resp) == resp.rejected

\* Throws without the status test: the fault C8 guards against.
ThrowsUnlessNoBody(resp) == resp.rejected \/ ~resp.hasBody

\* if (!response.ok) throw ...; if (!response.body) throw ...
\* (a rejected fetch throws by itself)                   page.tsx:95-112
Throws(resp) == resp.rejected \/ ~resp.ok \/ ~resp.hasBody

\* fetch settles: with a success status and a body the reader is taken,
\* otherwise the catch block runs.                       page.tsx:95-117
FetchSettles(i, resp) ==
    /\ i \in 1..Len(calls)
    /\ resp \in Responses(i)
    /\ calls[i].pc = "fetch"
    /\ IF Throws(resp)
       THEN /\ Fail(i)
            /\ calls' = [calls EXCEPT
                   ![i].pc = "done", ![i].response = ResponseKind(resp),
                   ![i].outcome = "error",
                   ![i].toasts = Append(@, "error")]
       ELSE /\ calls' = [calls EXCEPT
                   ![i].pc = "read", ![i].response = ResponseKind(resp),
                   ![i].stream.wire = resp.wire]
            /\ UNCHANGED <<messages, input, isGenerating, cl, requests,
                           now, last, card>>

\* reader.read() resolves with the next k bytes.         page.tsx:121-194
ReadChunk(i, k) ==
    /\ i \in 1..Len(calls)
    /\ calls[i].pc = "read"
    /\ calls[i].stream.pos + k <= Len(calls[i].stream.wire)
    /\ LET c == calls[i]
           st == c.stream
           value == SubSeq(st.wire, st.pos + 1, st.pos + k)
           dec == Decode(st.pending, value)
           segments == Split(st.buffer \o dec.out)
           r == ProcessLines(CompleteLines(segments), messages,
                             c.assistantId, c.log)
       IN  /\ messages' = r.msgs
           /\ isGenerating' = IF r.returned THEN Finally(FALSE)
                              ELSE isGenerating
           /\ calls' = [calls EXCEPT
                  ![i].stream = IF r.returned THEN NoStream
                                ELSE [wire |-> st.wire, pos |-> st.pos + k,
                                      pending |-> dec.pending,
                                      buffer |-> KeptBuffer(segments)],
                  ![i].log = r.log,
                  ![i].toasts = @ \o r.toasts,
                  ![i].split = @ \/ (~r.returned /\
                      (dec.pending # <<>> \/ KeptBuffer(segments) # <<>>)),
                  ![i].skipped = r.skipped,
                  ![i].pc = IF r.returned THEN "done" ELSE "read",
                  ![i].outcome = IF r.returned THEN "done" ELSE "none"]
    /\ UNCHANGED <<input, cl, requests, now, last, card>>

\* ReadEnd taking the missing done event for a failure: the fault C27
\* guards against.
ReadEndFails(i) ==
    /\ i \in 1..Len(calls)
    /\ calls[i].pc = "read"
    /\ messages' = ErrorUpdate(messages)
    /\ calls' = [calls EXCEPT
           ![i].pc = "done", ![i].outcome = "eof", ![i].stream = NoStream,
           ![i].cut = calls[i].stream.buffer # <<>>,
           ![i].toasts = Append(@, "error")]
    /\ isGenerating' = Finally(isGenerating)
    /\ UNCHANGED <<input, cl, requests, now, last, card>>

\* ReadEnd taking what is left in the buffer as a last line: the fault C26
\* guards against.
ReadEndFlushes(i) ==
    /\ i \in 1..Len(calls)
    /\ calls[i].pc = "read"
    /\ LET r == ProcessLines(<<calls[i].stream.buffer>>, messages,
                             calls[i].assistantId, calls[i].log)
       IN  /\ messages' = r.msgs
           /\ calls' = [calls EXCEPT
                  ![i].pc = "done", ![i].outcome = "eof",
                  ![i].stream = NoStream, ![i].log = r.log,
                  ![i].cut = calls[i].stream.buffer # <<>>]
    /\ isGenerating' = Finally(isGenerating)
    /\ UNCHANGED <<input, cl, requests, now, last, card>>

\* ReadEnd testing the current indicator instead of the one the callback
\* captured, so that "Response completed!" is shown: the fault C22 guards
\* against.
ReadEndToasts(i) ==
    /\ i \in 1..Len(calls)
    /\ calls[i].pc = "read"
    /\ calls' = [calls EXCEPT
           ![i].pc = "done", ![i].outcome = "eof", ![i].stream = NoStream,
           ![i].cut = calls[i].stream.buffer # <<>>,
           ![i].toasts = IF isGenerating THEN Append(@, "success") ELSE @]
    /\ isGenerating' = Finally(isGenerating)
    /\ UNCHANGED <<messages, input, cl, requests, now, last, card>>

\* reader.read() resolves with done: the transport closed after the bytes
\* delivered so far.                            page.tsx:123,195-202,220-222
ReadEnd(i) ==
    /\ i \in 1..Len(calls)
    /\ calls[i].pc = "read"
    /\ calls' = [calls EXCEPT
           ![i].pc = "done", ![i].outcome = "eof", ![i].stream = NoStream,
           ![i].cut = calls[i].stream.buffer # <<>>,
           ![i].toasts = IF calls[i].gen THEN Append(@, "success") ELSE @]
    /\ isGenerating' = Finally(isGenerating)
    /\ UNCHANGED <<messages, input, cl, requests, now, last, card>>

\* reader.read() rejects.                                page.tsx:121,195-222
ReadThrows(i) ==
    /\ i \in 1..Len(calls)
    /\ calls[i].pc = "read"
    /\ Fail(i)
    /\ calls' = [calls EXCEPT
           ![i].pc = "done", ![i].outcome = "error", ![i].stream = NoStream,
           ![i].toasts = Append(@, "error")]

\* Render with a watchdog that gives up on a request and clears the
\* indicator: the fault C21 guards against.
RenderCancels ==
    /\ isGenerating
    /\ isGenerating' = FALSE
    /\ cl' = [input |-> input, isGenerating |-> FALSE]
    /\ UNCHANGED <<messages, input, calls, requests, now, last, card>>

\* React renders the component again after state was set outside an event
\* handler; handleSubmit is created anew with the current state.
\*                                                        page.tsx:60,224
Render ==
    /\ cl # [input |-> input, isGenerating |-> isGenerating]
    /\ cl' = [input |-> input, isGenerating |-> isGenerating]
    /\ UNCHANGED <<messages, input, isGenerating, calls, requests, now,
                   last, card>>

\* What the message list shows for a message: a user bubble, the
\* structured results panel, or a plain-text bubble.     page.tsx:307-339
Display(message) ==
    IF message.role = "user"
    THEN [kind |-> "user", text |-> message.content, data |-> NoCard]
    ELSE IF message.cardData # NoCard
    THEN [kind |-> "panel", text |-> <<>>, data |-> message.cardData]
    ELSE [kind |-> "text", text |-> message.content, data |-> NoCard]

----------------------------------------------------------------------------
(* The card as a state machine.                                            *)

\* A card is mounted for a work order with any part_numbers value.
InitCard ==
    /\ messages = <<>>
    /\ input = <<>>
    /\ isGenerating = FALSE
    /\ cl = [input |-> <<>>, isGenerating |-> FALSE]
    /\ calls = <<>>
    /\ requests = <<>>
    /\ now = 0
    /\ last = "none"
    /\ part_numbers \in PartNumbers
    /\ badges = NotRendered

\* WorkOrderCard renders.                                 part_002:484-700
RenderCard ==
    /\ badges = NotRendered
    /\ badges' = Badges(Parts(part_numbers))
    /\ UNCHANGED <<page, part_numbers>>

NextCard == RenderCard

SpecCard == InitCard /\ [][NextCard]_vars

Next ==
    \/ \E v \in Inputs : HandleInputChange(v)
    \/ HandleSubmitRejected
    \/ \E t1 \in 0..MaxClock : \E t2 \in 0..MaxClock : HandleSubmit(t1, t2)
    \/ \E i \in 1..MaxSubmits :
          \E resp \in FirstWireResponses \cup LaterWireResponses :
             FetchSettles(i, resp)
    \/ \E i \in 1..MaxSubmits : \E k \in 1..MaxChunk : ReadChunk(i, k)
    \/ \E i \in 1..MaxSubmits : ReadEnd(i)
    \/ \E i \in 1..MaxSubmits : ReadThrows(i)
    \/ Render

Spec == Init /\ [][Next]_vars

----------------------------------------------------------------------------
(* Properties.                                                             *)

InFlight(i) == calls[i].pc # "done"
Latest(i) == i = Len(calls)
IsAssistant(m) == m.role = "assistant"

\* s is an initial part of t
IsPrefix(s, t) == Len(s) <= Len(t) /\ SubSeq(t, 1, Len(s)) = s

\* handleSubmit given the whole text as one chunk, on the placeholder alone.
OneChunk(text, assistantId) ==
    LET placeholder == [id |-> assistantId, role |-> "assistant",
                        content |-> <<>>, createdAt |-> 0,
                        cardData |-> NoCard]
        dec == Decode(<<>>, text)
        segments == Split(dec.out)
    IN  ProcessLines(CompleteLines(segments), <<placeholder>>,
                     assistantId, <<>>)

\* Call i returns in this step other than through the catch block.
Completes(i) ==
    /\ calls[i].pc = "read"
    /\ calls'[i].pc = "done"
    /\ calls'[i].outcome \in {"done", "eof"}

\* The response text of call i as it returns: the whole body when a done
\* event returned, the bytes delivered before the transport closed otherwise.
ResponseText(i) ==
    IF calls'[i].outcome = "eof"
    THEN SubSeq(calls[i].stream.wire, 1, calls[i].stream.pos)
    ELSE calls[i].stream.wire

\* C1: fragmentation invariance.  However the response text was split
\* into chunks, a call that returns has applied the events, and leaves the
\* assistant message (content and cardData) and the termination outcome,
\* that the same text gives when it arrives as one single chunk.
C1_FragmentationInvariance ==
    [][\A i \in 1..Len(calls) :
         Completes(i) =>
           LET r == OneChunk(ResponseText(i), calls[i].assistantId)
               m == messages'[calls[i].slot]
           IN  /\ m.content = r.msgs[1].content
               /\ m.cardData = r.msgs[1].cardData
               /\ calls'[i].log = r.log
               /\ (calls'[i].outcome = "done") = r.returned]_vars

\* A call returned after a chunk ended inside a line and at least two
\* events were applied.
C1_Witness ==
    \E i \in 1..Len(calls) :
        /\ calls[i].pc = "done"
        /\ calls[i].outcome \in {"done", "eof"}
        /\ calls[i].split
        /\ Len(calls[i].log) >= 2

\* C2: single-flight.  At most one request is in flight, and while one is
\* in flight no step - in particular no handleSubmit call - appends a
\* message, issues a request or starts an invocation.
C2_SingleFlight ==
    /\ [](Cardinality({i \in 1..Len(calls) : InFlight(i)}) <= 1)
    /\ [][(\E i \in 1..Len(calls) : InFlight(i)) =>
            /\ Len(messages') = Len(messages)
            /\ requests' = requests
            /\ Len(calls') = Len(calls)]_vars

\* handleSubmit was called with text in the input while a request was in
\* flight, and returned at the guard.
C2_Witness ==
    /\ last = "rejected"
    /\ Trim(cl.input) # <<>>
    /\ \E i \in 1..Len(calls) : InFlight(i) /\ calls[i].pc = "read"

\* C3: the number of assistant messages equals the number of accepted
\* submissions, whatever the outcomes of the submissions were.
C3_OneAssistantPerSubmission ==
    /\ Cardinality({k \in 1..Len(messages) : IsAssistant(messages[k])})
           = Len(calls)
    /\ \A i \in 1..Len(calls) :
           /\ calls[i].slot \in 1..Len(messages)
           /\ IsAssistant(messages[calls[i].slot])
           /\ messages[calls[i].slot].id = calls[i].assistantId

\* Two submissions have ended, one through the catch block and one on a
\* done event.
C3_Witness ==
    /\ Len(calls) >= 2
    /\ calls[1].pc = "done" /\ calls[1].outcome = "error"
    /\ calls[2].pc = "done" /\ calls[2].outcome = "done"

\* C4: isGenerating is true from the acceptance of a submission on, and
\* false once handleSubmit has returned on any path: it is true exactly
\* while an invocation is in flight.
C4_IndicatorScoped ==
    isGenerating <=> \E i \in 1..Len(calls) : InFlight(i)

\* One submission ended on a response without body, another at the end of
\* a stream without done event, and the indicator is off.
C4_Witness ==
    /\ Len(calls) >= 2
    /\ calls[1].response = "nobody"
    /\ calls[2].outcome = "eof"
    /\ ~isGenerating

\* The message that applying the events of `log`, in order, leaves.
RECURSIVE Replay(_, _)
Replay(log, m) ==
    IF log = <<>> THEN m
    ELSE Replay(Tail(log),
                IF Head(log).type = "cards"
                THEN [content |-> CARDS_CONTENT, cardData |-> Head(log).data]
                ELSE [content |-> m.content \o Head(log).text,
                      cardData |-> m.cardData])

\* C5: the first event with done = true ends the interaction.  No event is
\* applied after it, the invocation has returned, the assistant message is
\* what the events up to and including it leave, and the indicator is off.
C5_DoneEnds ==
    \A i \in 1..Len(calls) :
        LET c == calls[i] IN
        /\ \A j \in 1..Len(c.log) :
               c.log[j].done =>
                   j = Len(c.log) /\ c.pc = "done" /\ c.outcome = "done"
        /\ (c.outcome = "done" /\ Latest(i)) =>
               /\ ~isGenerating
               /\ c.log # <<>> /\ c.log[Len(c.log)].done
               /\ LET m == Replay(c.log, [content |-> <<>>,
                                          cardData |-> NoCard])
                  IN  /\ messages[c.slot].content = m.content
                      /\ messages[c.slot].cardData = m.cardData

\* A done event returned while a later line of the same chunk was waiting.
C5_Witness ==
    \E i \in 1..Len(calls) :
        calls[i].outcome = "done" /\ calls[i].skipped > 0

\* Every event applied was a token event or a cards event.
TokenAndCardsEvents(log) ==
    \A j \in 1..Len(log) : log[j].type = "cards" \/ log[j].hasToken

\* C6: after any sequence of token events and cards events the assistant
\* message is fully textual or fully structured: with cardData its content
\* is the cards caption and holds no token text, without cardData its
\* content holds no caption.
C6_NeverAMix ==
    \A i \in 1..Len(calls) :
        (Latest(i) /\ TokenAndCardsEvents(calls[i].log)) =>
            LET m == messages[calls[i].slot] IN
            IF m.cardData # NoCard
            THEN m.content = CARDS_CONTENT
            ELSE \A j \in 1..Len(m.content) : m.content[j] # CARDS_CONTENT[1]

\* The lines of a text that are complete, after decoding.
LinesOf(text) == CompleteLines(Split(Decode(<<>>, text).out))

\* Every complete line of the text is a token event.
TokenEventsOnly(text) ==
    \A n \in 1..Len(LinesOf(text)) :
        LET line == LinesOf(text)[n] IN
        /\ StartsWithPrefix(line)
        /\ JSONParse(Tail(line)).ok
        /\ JSONParse(Tail(line)).hasToken

\* The token strings of the lines, concatenated up to and including the
\* first one with done = true.
RECURSIVE TokensUntilDone(_)
TokensUntilDone(lines) ==
    IF lines = <<>> THEN <<>>
    ELSE LET data == JSONParse(Tail(Head(lines)))
         IN  data.token \o
             (IF data.done THEN <<>> ELSE TokensUntilDone(Tail(lines)))

\* The part of the body of call i that has been delivered after this step.
DeliveredAfter(i) ==
    IF calls'[i].pc = "read"
    THEN SubSeq(calls[i].stream.wire, 1, calls'[i].stream.pos)
    ELSE ResponseText(i)

\* C7: for a stream of well-formed token events the content of the
\* assistant message is, after each step, the concatenation in server order
\* of the tokens of the events delivered so far, up to and including the
\* first one with done = true; a step only extends the content; and the
\* indicator is off once the done event was applied.
C7_TokensConcatenate ==
    [][\A i \in 1..Len(calls) :
         ( /\ calls[i].pc = "read"
           /\ TokenEventsOnly(calls[i].stream.wire)
           /\ calls'[i].outcome # "error" ) =>
             LET before == messages[calls[i].slot].content
                 after == messages'[calls[i].slot].content
             IN  /\ after = TokensUntilDone(LinesOf(DeliveredAfter(i)))
                 /\ IsPrefix(before, after)
                 /\ calls'[i].outcome = "done" => ~isGenerating']_vars

\* Two token events were applied, the second with done = true, and the
\* content is the two tokens in order.
C7_Witness ==
    \E i \in 1..Len(calls) :
        /\ calls[i].outcome = "done"
        /\ Len(calls[i].log) = 2
        /\ calls[i].log[1].type # "cards" /\ calls[i].log[2].type # "cards"
        /\ messages[calls[i].slot].content = <<EACUTE, "b">>
        /\ ~isGenerating

\* C8: a response with a non-success status leaves the assistant message
\* of the submission with the connectivity-failure notice, and the
\* indicator off.
C8_StatusFailure ==
    \A i \in 1..Len(calls) :
        (Latest(i) /\ calls[i].response = "status") =>
            /\ calls[i].pc = "done"
            /\ messages[calls[i].slot].content = ERROR_CONTENT
            /\ ~isGenerating

\* A second submission got a response with a non-success status.
C8_Witness ==
    /\ Len(calls) >= 2
    /\ calls[Len(calls)].response = "status"

\* C9: an exception while the stream is read, at any point of the stream,
\* also after token or cards events were applied, leaves the assistant
\* message of the submission with the connectivity-failure notice, and
\* the indicator off.
C9_StreamFailure ==
    \A i \in 1..Len(calls) :
        ( /\ Latest(i)
          /\ calls[i].response = "ok" /\ calls[i].outcome = "error"
          /\ TokenAndCardsEvents(calls[i].log) ) =>
            /\ messages[calls[i].slot].content = ERROR_CONTENT
            /\ ~isGenerating

\* C10: while the input is empty or blank no step - in particular no
\* handleSubmit call - appends a message, issues a request or sets the
\* indicator.
C10_BlankInputIgnored ==
    [][Trim(input) = <<>> =>
         /\ Len(messages') = Len(messages)
         /\ requests' = requests
         /\ Len(calls') = Len(calls)
         /\ isGenerating' => isGenerating]_vars

\* handleSubmit was called on a whitespace-only input and returned at the
\* guard, before any submission was accepted.
C10_Witness ==
    /\ last = "rejected"
    /\ input = <<SP>>
    /\ calls = <<>>
    /\ messages = <<>>

\* A line with the prefix whose payload is not JSON: no JSON text holds
\* the unit JUNK.
Malformed(line) ==
    StartsWithPrefix(line) /\ \E j \in 1..Len(line) : line[j] = JUNK

DropMalformed(lines) == SelectSeq(lines, LAMBDA l : ~Malformed(l))

\* The lines that become complete when call i is given the bytes up to
\* position p of its body.
LinesCompletedBy(i, p) ==
    LET st == calls[i].stream
        dec == Decode(st.pending, SubSeq(st.wire, st.pos + 1, p))
    IN  CompleteLines(Split(st.buffer \o dec.out))

\* The loop body on the placeholder alone.
OnPlaceholder(lines, assistantId) ==
    ProcessLines(lines,
                 <<[id |-> assistantId, role |-> "assistant",
                    content |-> <<>>, createdAt |-> 0, cardData |-> NoCard]>>,
                 assistantId, <<>>)

\* C11: a prefixed line whose payload is not JSON is skipped.  A chunk
\* changes the messages and the applied events exactly as the same lines
\* without the malformed ones do - a chunk of malformed lines alone changes
\* nothing and the invocation goes on reading - and a call that returns
\* leaves the message, events and outcome of the response with the
\* malformed lines taken out.
C11_MalformedSkipped ==
    [][\A i \in 1..Len(calls) :
         /\ ( /\ calls[i].pc = "read" /\ calls'[i].pc = "read"
              /\ calls'[i].stream.pos > calls[i].stream.pos ) =>
               LET lines == LinesCompletedBy(i, calls'[i].stream.pos)
                   r == ProcessLines(DropMalformed(lines), messages,
                                     calls[i].assistantId, calls[i].log)
               IN  /\ messages' = r.msgs
                   /\ calls'[i].log = r.log
                   /\ ~r.returned
         /\ Completes(i) =>
               LET r == OnPlaceholder(DropMalformed(LinesOf(ResponseText(i))),
                                      calls[i].assistantId)
                   m == messages'[calls[i].slot]
               IN  /\ m.content = r.msgs[1].content
                   /\ m.cardData = r.msgs[1].cardData
                   /\ calls'[i].log = r.log
                   /\ (calls'[i].outcome = "done") = r.returned]_vars

\* The whole body was delivered; its first line was malformed, its second
\* line a token event, and the message holds that token.
C11_Witness ==
    \E i \in 1..Len(calls) :
        /\ calls[i].pc = "read"
        /\ calls[i].stream.pos = Len(calls[i].stream.wire)
        /\ Len(LinesOf(calls[i].stream.wire)) = 2
        /\ Malformed(LinesOf(calls[i].stream.wire)[1])
        /\ Len(calls[i].log) = 1
        /\ messages[calls[i].slot].content = <<EACUTE>>

\* No two messages of the list have the same id.
DistinctIds(msgs) ==
    \A k \in 1..Len(msgs) : \A n \in 1..Len(msgs) :
        msgs[k].id = msgs[n].id => k = n

\* C12: a submission changes only the assistant message it created.  In
\* every step - token event, cards event, catch block - of a session whose
\* ids are distinct, each message already in the list that is not the
\* assistant message of the invocation in flight is left as it was,
\* whatever its content.
C12_OnlyOwnMessage ==
    [][DistinctIds(messages) =>
         \A k \in 1..Len(messages) :
             (\A i \in 1..Len(calls) : InFlight(i) => calls[i].slot # k) =>
                 messages'[k] = messages[k]]_vars

\* The positions of the cards events in a log.
CardsAt(log) == {j \in 1..Len(log) : log[j].type = "cards"}

\* The data payload of the last cards event of a log that has one.
LastCardsData(log) ==
    log[CHOOSE j \in CardsAt(log) : \A n \in CardsAt(log) : n <= j].data

\* C13: a cards event sets cardData to the event's data payload in the
\* step that applies it, and the message is the structured panel from then
\* on.  The message of the submission being served has the payload of the
\* last cards event applied, or no cardData when none was; the message of
\* every submission that applied a cards event is shown as a panel; and an
\* assistant message is shown as a panel exactly when it has cardData.
C13_CardsPanel ==
    /\ \A i \in 1..Len(calls) :
           LET m == messages[calls[i].slot]
               log == calls[i].log
           IN  /\ CardsAt(log) # {} =>
                      /\ m.cardData # NoCard
                      /\ Display(m).kind = "panel"
               /\ Latest(i) =>
                      IF CardsAt(log) # {}
                      THEN /\ m.cardData = LastCardsData(log)
                           /\ Display(m) = [kind |-> "panel", text |-> <<>>,
                                            data |-> LastCardsData(log)]
                      ELSE /\ m.cardData = NoCard
                           /\ Display(m).kind = "text"
    /\ \A k \in 1..Len(messages) :
           IsAssistant(messages[k]) =>
               (Display(messages[k]).kind = "panel"
                    <=> messages[k].cardData # NoCard)

\* Two cards events with different payloads were applied, the second with
\* done = true, and the message shows the second payload.
C13_Witness ==
    \E i \in 1..Len(calls) :
        /\ calls[i].outcome = "done"
        /\ Len(calls[i].log) = 2
        /\ calls[i].log[1].type = "cards" /\ calls[i].log[1].data = D1
        /\ calls[i].log[2].type = "cards" /\ calls[i].log[2].data = D2
        /\ Display(messages[calls[i].slot]).data = D2

\* The state of submission i in the list of invocations cs: Idle before it
\* is accepted, Sending while fetch is awaited, Streaming while the body is
\* read, Completed or Failed once handleSubmit has returned.
Phase(cs, i) ==
    IF i > Len(cs) THEN "Idle"
    ELSE IF cs[i].pc = "fetch" THEN "Sending"
    ELSE IF cs[i].pc = "read" THEN "Streaming"
    ELSE IF cs[i].outcome = "error" THEN "Failed"
    ELSE "Completed"

Transitions ==
    { <<"Idle", "Sending">>, <<"Sending", "Streaming">>,
      <<"Sending", "Failed">>, <<"Streaming", "Completed">>,
      <<"Streaming", "Failed">> }

\* C14: each submission moves Idle -> Sending -> Streaming -> Completed or
\* Failed, with Failed also directly after Sending, and in no other way;
\* it is Streaming only after a success status with a body; and when a
\* submission is accepted every earlier one has returned and the indicator
\* is off.
C14_StateMachine ==
    [][\A i \in 1..MaxSubmits :
         LET from == Phase(calls, i)
             to == Phase(calls', i)
         IN  /\ from # to => <<from, to>> \in Transitions
             /\ to = "Streaming" => calls'[i].response = "ok"
             /\ (from = "Idle" /\ to = "Sending") =>
                    /\ ~isGenerating
                    /\ i = Len(calls) + 1
                    /\ \A j \in 1..Len(calls) :
                           Phase(calls, j) \in {"Completed", "Failed"}]_vars

\* A first submission failed while Sending, on a non-success status, and
\* a second one failed while Streaming.
C14_Witness ==
    /\ Len(calls) = 2
    /\ Phase(calls, 1) = "Failed" /\ calls[1].response = "status"
    /\ Phase(calls, 2) = "Failed" /\ calls[2].response = "ok"

\* C15: message ids are unique.  In every reachable state no two messages
\* of the list have the same id, whatever the clock read when the
\* submissions were accepted.
C15_UniqueIds == DistinctIds(messages)

\* C16: the message list is append-only.  No step shortens the list or
\* moves a message: each message already in the list stays at its position
\* with its id, role and creation time, and a user message keeps its
\* content.
C16_AppendOnly ==
    [][/\ Len(messages') >= Len(messages)
       /\ \A k \in 1..Len(messages) :
              /\ messages'[k].id = messages[k].id
              /\ messages'[k].role = messages[k].role
              /\ messages'[k].createdAt = messages[k].createdAt
              /\ messages[k].role = "user" =>
                     messages'[k].content = messages[k].content]_vars

\* Two submissions were appended and served: the first ended in the catch
\* block, the second with events applied, and both user messages hold the
\* text submitted.
C16_Witness ==
    /\ Len(messages) = 4
    /\ messages[1].role = "user" /\ messages[1].content = <<"h">>
    /\ messages[2].content = ERROR_CONTENT
    /\ messages[3].role = "user" /\ messages[3].content = <<"h">>
    /\ messages[4].cardData # NoCard
    /\ calls[2].pc = "done"

\* The handleSubmit of the last render has the current state.
Rendered == cl = [input |-> input, isGenerating |-> isGenerating]

\* C17: no failure is fatal.  When the latest submission has ended in the
\* catch block - on a rejected fetch, a non-success status, a missing body
\* or a stream exception - and the input holds text, handleSubmit passes
\* its guard and its call appends one request.
C17_FailureNotFatal ==
    \A i \in 1..Len(calls) :
        ( /\ Latest(i) /\ Phase(calls, i) = "Failed"
          /\ Trim(input) # <<>> /\ Rendered
          /\ Len(calls) < MaxSubmits ) =>
            /\ ~SubmitRejected(cl)
            /\ ENABLED (\E t1 \in 0..MaxClock : \E t2 \in 0..MaxClock :
                          /\ HandleSubmit(t1, t2)
                          /\ Len(requests') = Len(requests) + 1)

\* After a submission that failed on a stream exception, a second one was
\* accepted and its request issued.
C17_Witness ==
    /\ Len(calls) = 2
    /\ Phase(calls, 1) = "Failed" /\ calls[1].response = "ok"
    /\ Phase(calls, 2) = "Sending"
    /\ Len(requests) = 2
    /\ last = "accepted"

\* C18: once the request of a submission is issued, its user message and
\* its placeholder are in the list, the placeholder directly after the user
\* message, and the placeholder is empty and without cardData until the
\* first event of the response is applied.
C18_MessagesBeforeRequest ==
    /\ Len(requests) >= Len(calls)
    /\ \A i \in 1..Len(calls) :
           LET slot == calls[i].slot IN
           /\ slot \in 2..Len(messages)
           /\ messages[slot - 1].role = "user"
           /\ messages[slot - 1].content = requests[i].body.message
           /\ messages[slot].role = "assistant"
           /\ messages[slot].id = calls[i].assistantId
           /\ (calls[i].pc \in {"fetch", "read"} /\ calls[i].log = <<>>) =>
                  /\ messages[slot].content = <<>>
                  /\ messages[slot].cardData = NoCard

\* The request of a second submission is issued and no response has
\* arrived: the list ends with its user message and its empty placeholder.
C18_Witness ==
    /\ Len(calls) = 2
    /\ calls[2].pc = "fetch"
    /\ Len(requests) = 2
    /\ Len(messages) = 4
    /\ messages[3].role = "user" /\ messages[3].content = <<"h">>
    /\ messages[4].role = "assistant" /\ messages[4].content = <<>>

\* C19: each accepted submission issues exactly one request.  The requests
\* issued are, in every state and after every outcome, one per accepted
\* submission: none is added by a failure or by the end of a stream.
C19_OneRequestPerSubmission == Len(requests) = Len(calls)

\* A submission failed on a stream exception, a second one reached the end
\* of its stream without a done event, and two requests were issued.
C19_Witness ==
    /\ Len(calls) = 2
    /\ calls[1].response = "ok" /\ calls[1].outcome = "error"
    /\ calls[2].outcome = "eof"
    /\ Len(requests) = 2

\* t is s without the whitespace at its two ends.
IsTrimOf(t, s) ==
    /\ t # <<>> => (Head(t) \notin Whitespace /\ t[Len(t)] \notin Whitespace)
    /\ \E a \in 0..Len(s) :
           /\ a + Len(t) <= Len(s)
           /\ SubSeq(s, a + 1, a + Len(t)) = t
           /\ \A j \in 1..a : s[j] \in Whitespace
           /\ \A j \in (a + Len(t) + 1)..Len(s) : s[j] \in Whitespace

ClientStep ==
    \/ \E v \in Inputs : HandleInputChange(v)
    \/ HandleSubmitRejected
    \/ \E t1 \in 0..MaxClock : \E t2 \in 0..MaxClock : HandleSubmit(t1, t2)
    \/ Render

\* C21: there is no cancellation and no timeout.  While an invocation
\* waits for the response or for the stream, the indicator is set, the
\* guard of handleSubmit rejects whatever the input holds, no submission
\* can be accepted, and no step of the page itself clears the indicator or
\* ends the invocation: only the response, a done event, the end of the
\* stream or a stream failure do.
C21_NoCancellation ==
    \A i \in 1..Len(calls) :
        InFlight(i) =>
            /\ isGenerating
            /\ SubmitRejected([input |-> <<"h">>,
                               isGenerating |-> cl.isGenerating])
            /\ ~ENABLED (\E t1 \in 0..MaxClock : \E t2 \in 0..MaxClock :
                            HandleSubmit(t1, t2))
            /\ ~ENABLED (ClientStep /\ (~isGenerating' \/ ~InFlight(i)'))

\* The whole body was delivered without a done event, the transport is
\* still open, and a submission of text attempted meanwhile was rejected.
C21_Witness ==
    \E i \in 1..Len(calls) :
        /\ calls[i].pc = "read"
        /\ calls[i].stream.wire # <<>>
        /\ calls[i].stream.pos = Len(calls[i].stream.wire)
        /\ Len(calls[i].log) >= 1
        /\ Trim(input) # <<>>
        /\ last = "rejected"
        /\ isGenerating

\* The notifications of a kind that a submission emitted.
Toasts(c, kind) == {n \in 1..Len(c.toasts) : c.toasts[n] = kind}

\* C22: a submission that ended in the catch block - rejected fetch,
\* non-success status, missing body, stream exception - emitted exactly one
\* failure notification and no success notification; a success
\* notification was emitted only by a submission that ended on an event
\* with done = true, and a failure notification only by one that failed.
C22_Notifications ==
    \A i \in 1..Len(calls) :
        LET c == calls[i] IN
        /\ c.outcome = "error" => c.toasts = <<"error">>
        /\ Toasts(c, "success") # {} =>
               /\ c.outcome = "done"
               /\ c.log # <<>> /\ c.log[Len(c.log)].done
        /\ Toasts(c, "error") # {} => c.outcome = "error"
        /\ InFlight(i) => c.toasts = <<>>

\* A submission failed on a stream exception after an event was applied,
\* with one failure notification; a second one ended on a done event, with
\* one success notification.
C22_Witness ==
    /\ Len(calls) = 2
    /\ calls[1].response = "ok" /\ calls[1].outcome = "error"
    /\ calls[1].log # <<>> /\ calls[1].toasts = <<"error">>
    /\ calls[2].outcome = "done" /\ calls[2].toasts = <<"success">>

\* The entries of a log that are token events or cards events.
ShapedEvents(log) == SelectSeq(log, LAMBDA e : e.type = "cards" \/ e.hasToken)

\* C23: a line that has not the prefixed-JSON shape of a token event or of
\* a cards event is skipped.  The assistant message of a submission that
\* has not failed is what the token events and cards events of the
\* response leave, whatever other lines the response holds.
C23_NonShapeSkipped ==
    \A i \in 1..Len(calls) :
        (Latest(i) /\ calls[i].outcome # "error") =>
            LET m == Replay(ShapedEvents(calls[i].log),
                            [content |-> <<>>, cardData |-> NoCard])
            IN  /\ messages[calls[i].slot].content = m.content
                /\ messages[calls[i].slot].cardData = m.cardData

\* The positions that bound the entries of a text: before its first
\* character, at each comma, after its last character.
Cuts(s) == {0} \cup {i \in 1..Len(s) : s[i] = COMMA} \cup {Len(s) + 1}

\* The entries of a text that hold a character other than whitespace, each
\* as the pair of the cuts around it.
NonBlankEntries(s) ==
    {e \in Cuts(s) \X Cuts(s) :
        /\ e[1] < e[2]
        /\ \A c \in Cuts(s) : ~(e[1] < c /\ c < e[2])
        /\ \E j \in (e[1] + 1)..(e[2] - 1) : s[j] \notin Whitespace}

\* The position of an entry among the non-blank entries.
Rank(s, e) == Cardinality({f \in NonBlankEntries(s) : f[1] <= e[1]})

\* C24: the part badges of a work order card.  The parts are the entries
\* of the part-number text between its commas, without the whitespace at
\* their ends, the blank entries left out (none for null, "" and 0); the
\* card shows the first 3 of them in their order, and a "+k more" badge
\* exactly when there are more than 3, with k the number of parts minus 3.
C24_PartBadges ==
    badges.rendered =>
        LET s == IF Truthy(part_numbers) THEN part_numbers.text ELSE <<>>
            n == Cardinality(NonBlankEntries(s))
        IN  /\ badges.row <=> n > 0
            /\ Len(badges.shown) = (IF n < 3 THEN n ELSE 3)
            /\ \A e \in NonBlankEntries(s) :
                   Rank(s, e) <= 3 =>
                       /\ badges.shown[Rank(s, e)] # <<>>
                       /\ IsTrimOf(badges.shown[Rank(s, e)],
                                   SubSeq(s, e[1] + 1, e[2] - 1))
            /\ badges.more = (IF n > 3 THEN <<n - 3>> ELSE <<>>)

\* A card rendered a text of four parts: three badges and "+1 more".
C24_Witness ==
    /\ badges.rendered
    /\ part_numbers.text = <<"p", COMMA, "q", COMMA, "q", COMMA, "p">>
    /\ badges.shown = << <<"p">>, <<"q">>, <<"q">> >>
    /\ badges.more = <<1>>

\* C25: a failure never destroys received content.  Whatever failures
\* have happened, the assistant message of a submission has the cardData
\* its events left, and the content its events left when that is not
\* empty; only a message the events left empty holds the notice, and the
\* message of a failed submission holds the notice exactly when its events
\* left it empty.
C25_FailureKeepsContent ==
    \A i \in 1..Len(calls) :
        (Latest(i) \/ DistinctIds(messages)) =>
            LET m == Replay(calls[i].log, [content |-> <<>>,
                                           cardData |-> NoCard])
                cur == messages[calls[i].slot]
            IN  /\ cur.cardData = m.cardData
                /\ m.content # <<>> => cur.content = m.content
                /\ m.content = <<>> => cur.content \in {<<>>, ERROR_CONTENT}
                /\ (Latest(i) /\ calls[i].outcome = "error") =>
                       (cur.content = ERROR_CONTENT <=> m.content = <<>>)

\* A submission failed in the stream after a cards event, a later one
\* failed on its status: the first message still is the panel, the second
\* holds the notice.
C25_Witness ==
    /\ Len(calls) = 2
    /\ calls[1].outcome = "error" /\ calls[1].response = "ok"
    /\ calls[2].outcome = "error" /\ calls[2].response = "status"
    /\ messages[2].cardData = D1 /\ messages[2].content = CARDS_CONTENT
    /\ messages[4].content = ERROR_CONTENT

\* C26: text left in the buffer without its newline is discarded when the
\* transport closes.  While a body is read, the events applied are those
\* of the lines whose newline has arrived, whatever the chunks were; and
\* the end of the stream applies no event and changes no message, whatever
\* the buffer holds.
C26_TailDiscarded ==
    \A i \in 1..Len(calls) :
        calls[i].pc = "read" =>
            LET st == calls[i].stream
                r == OnPlaceholder(LinesOf(SubSeq(st.wire, 1, st.pos)),
                                   calls[i].assistantId)
            IN  /\ calls[i].log = r.log
                /\ messages[calls[i].slot].content = r.msgs[1].content
                /\ messages[calls[i].slot].cardData = r.msgs[1].cardData
                /\ ~ENABLED ( /\ ReadEnd(i)
                              /\ \/ messages' # messages
                                 \/ calls'[i].log # calls[i].log )

\* The transport closed while the buffer held text without its newline,
\* after one event was applied; the message holds that event alone.
C26_Witness ==
    \E i \in 1..Len(calls) :
        /\ calls[i].outcome = "eof"
        /\ calls[i].cut
        /\ Len(calls[i].log) = 1
        /\ messages[calls[i].slot].content = <<EACUTE>>

C28_Alternation ==
    /\ Len(messages) = 2 * Len(calls)
    /\ \A k \in 1..Len(messages) :
           messages[k].role = (IF k % 2 = 1 THEN "user" ELSE "assistant")
    /\ \A i \in 1..Len(calls) :
           /\ calls[i].slot = 2 * i
           /\ messages[2 * i - 1].id.kind = "user"
           /\ messages[2 * i - 1].content = requests[i].body.message

\* Two submissions were accepted and have ended, one of them in the catch
\* block: the list has four messages.
C28_Witness ==
    /\ Len(messages) = 4
    /\ calls[1].outcome = "eof"
    /\ calls[2].outcome = "error"
    /\ messages[4].role = "assistant"

\* Some handleSubmit call passes the guard.
Accepts == \E t1 \in 0..MaxClock : \E t2 \in 0..MaxClock : HandleSubmit(t1, t2)

\* C29: an accepted submission clears the input field; a rejected one
\* changes nothing.  With an empty or blank input, or with a request in
\* flight, no handleSubmit call is accepted, and the call that returns at
\* the guard leaves the input, the list, the indicator and the requests
\* as they are; and every accepted call leaves the input empty.
C29_SubmitFrame ==
    /\ (Trim(input) = <<>> \/ \E i \in 1..Len(calls) : InFlight(i)) =>
           /\ SubmitRejected(cl)
           /\ ~ENABLED Accepts
    /\ ~ENABLED ( /\ HandleSubmitRejected
                  /\ \/ input' # input
                     \/ messages' # messages
                     \/ isGenerating' # isGenerating
                     \/ requests' # requests )
    /\ ~ENABLED (Accepts /\ input' # <<>>)

\* A submission was accepted, text was typed while its request was in
\* flight, and the submission of that text was rejected: the text is still
\* in the input field and the list has the two messages of the first.
C29_Witness ==
    /\ last = "rejected"
    /\ input = <<SP, "h", SP>>
    /\ Len(calls) = 1 /\ calls[1].pc = "fetch"
    /\ Len(messages) = 2
    /\ isGenerating

\* C30: a success status without a body is a failure like a non-success
\* status.  The latest submission, when its response had no body, has
\* returned through the catch block without reading a stream: its
\* placeholder holds the notice, it emitted one failure notification and
\* nothing else, no event was applied, and the indicator is off.
C30_NoBodyFailure ==
    \A i \in 1..Len(calls) :
        (Latest(i) /\ calls[i].response = "nobody") =>
            /\ calls[i].pc = "done" /\ calls[i].outcome = "error"
            /\ messages[calls[i].slot].content = ERROR_CONTENT
            /\ messages[calls[i].slot].cardData = NoCard
            /\ calls[i].toasts = <<"error">>
            /\ calls[i].log = <<>>
            /\ calls[i].stream = NoStream /\ ~calls[i].split
            /\ ~isGenerating

\* One submission got a non-success status, the next a success status
\* without body: both messages hold the notice and each submission emitted
\* one failure notification.
C30_Witness ==
    /\ Len(calls) = 2
    /\ calls[1].response = "status" /\ calls[2].response = "nobody"
    /\ messages[2].content = ERROR_CONTENT
    /\ messages[4].content = ERROR_CONTENT
    /\ calls[1].toasts = <<"error">> /\ calls[2].toasts = <<"error">>
    /\ ~isGenerating

====
